---- MODULE Spec2Model ----
(***************************************************************************)
(* A model of carquet's interoperability harness:                          *)
(*   interop/verify_carquet_output.py  (main, the three reader adapters),  *)
(*   interop/verify_comprehensive.py   (run_comprehensive_test),           *)
(*   interop/roundtrip_test.py         (run_roundtrip_test).               *)
(* One behaviour is one process: Init picks the entry point and the        *)
(* environment (which libraries import, what is on disk), the actions are  *)
(* the steps of that entry point in program order.                         *)
(* SpecComparison applies the comparators (compare_values and the checks   *)
(* of the two orchestrators) to arguments drawn by its Init; SpecGenerate  *)
(* is benchmark/generate_test_files.py's generate_data over NumPy's        *)
(* process-wide generator.                                                 *)
(***************************************************************************)
EXTENDS Integers, Sequences, FiniteSets, TLC

(***************************************************************************)
(* Bounds of the model.                                                    *)
(***************************************************************************)
\* rows of the table fed to the writer (NUM_ROWS is 1000 in the C source)
NumRows == 6
\* entries of the manifest's "files" list (one per compression codec)
MaxFiles == 2
\* how many ways at once a decoded file may differ from what was fed
MaxFaults == 2
\* the states of NumPy's generator (the Mersenne Twister has 2^19937 - 1)
RngMod == 16
\* num_rows of a generate_data or benchmark_write call
MaxGenRows == 2
\* calls that draw from np.random in one process
MaxCalls == 3

(***************************************************************************)
(* Program constants.                                                      *)
(***************************************************************************)
\* the first-K slice, to_pylist()[:5]
K == 5
\* tolerances, in units of 1e-11
TolFloatComprehensive == 10000000
TolDoubleComprehensive == 10
TolFloatRoundtrip == 1000000
TolDoubleRoundtrip == 10

(***************************************************************************)
(* Values.  A cell is a tuple: <<>> is None, <<v>> an integer, a boolean   *)
(* (0/1) or a string (its number); <<q, d>> is the floating value          *)
(* q/8 + d*1e-11 (every value the writer is fed is a multiple of 1/8, and  *)
(* |d| stays far below 1/16, so two values with different q differ by more *)
(* than any tolerance).                                                    *)
(***************************************************************************)
NULL == <<>>
Cell(v) == <<v>>
Flt(q, d) == <<q, d>>
Abs(x) == IF x < 0 THEN -x ELSE x
Min(a, b) == IF a < b THEN a ELSE b

\* abs(a - b) > tol
Exceeds(a, b, tol) == a[1] # b[1] \/ Abs(a[2] - b[2]) > tol
\* abs(a - b) < tol
Within(a, b, tol) == a[1] = b[1] /\ Abs(a[2] - b[2]) < tol

\* lst[:n]
Prefix(lst, n) == SubSeq(lst, 1, Min(n, Len(lst)))
\* zip(a, b): the index range both lists cover (0-based)
ZipRange(a, b) == 0 .. (Min(Len(a), Len(b)) - 1)
\* d.get(k, default)
Get(d, k, default) == IF k \in DOMAIN d THEN d[k] ELSE default

RECURSIVE SumCells(_)
\* sum(column.to_pylist()) of a column without None
SumCells(col) == IF col = <<>> THEN 0 ELSE col[1][1] + SumCells(Tail(col))

\* sum(1 for v in column if v is None)
CountNone(col) == Cardinality({i \in DOMAIN col : col[i] = NULL})

(***************************************************************************)
(* The table the writer is fed, row i (0-based), and the table a reader    *)
(* decodes from the file the writer produced.                              *)
(***************************************************************************)
RoundtripColumns == {"int32_col", "int64_col", "float_col", "double_col", "nullable_int"}
ComprehensiveColumns == RoundtripColumns \cup {"bool_col", "string_col"}

\* the two columns only the comprehensive writer has (roundtrip_comprehensive.c):
\* alternating booleans, and strings that are null on every 7th row
ComprehensiveFedValue(c, i) ==
    CASE c = "bool_col" -> Cell(i % 2)
      [] c = "string_col" -> IF i % 7 = 0 THEN NULL ELSE Cell(i)

\* roundtrip_writer.c, the loop that fills the column buffers
FedValue(c, i) ==
    CASE c = "int32_col" -> Cell(i * 10)
      [] c = "int64_col" -> Cell(i * 1000000)
      [] c = "float_col" -> Flt(i * 4, 0)
      [] c = "double_col" -> Flt(i, 0)
      [] c = "nullable_int" -> IF i % 5 = 0 THEN NULL ELSE Cell(i * 100)
      [] OTHER -> ComprehensiveFedValue(c, i)

FedColumn(c) == [j \in 1..NumRows |-> FedValue(c, j - 1)]

\* The ways a decoded file can differ from the table that was fed.
FaultKinds ==
    {"rows", "bool", "int32", "int32_tail", "int64", "float_lo", "float_mid",
     "float_hi", "double_hi", "string", "null_filled", "nullable", "no_column"}

FaultSets == {f \in SUBSET FaultKinds : Cardinality(f) <= MaxFaults}

\* what a reader returns for row i of column c of a file with faults f
DecodedValue(f, c, i) ==
    CASE c = "bool_col" /\ i = 0 /\ "bool" \in f -> Cell(1 - FedValue(c, i)[1])
      [] c = "int32_col" /\ i = 1 /\ "int32" \in f -> Cell(FedValue(c, i)[1] + 1)
      [] c = "int32_col" /\ i = NumRows - 1 /\ "int32_tail" \in f -> Cell(FedValue(c, i)[1] + 1)
      [] c = "int64_col" /\ i = 1 /\ "int64" \in f -> Cell(FedValue(c, i)[1] + 1)
      [] c = "float_col" /\ i = 2 /\ "float_hi" \in f -> Flt(FedValue(c, i)[1], 100000000)
      [] c = "float_col" /\ i = 3 /\ "float_mid" \in f -> Flt(FedValue(c, i)[1], 5000000)
      [] c = "float_col" /\ i = 1 /\ "float_lo" \in f -> Flt(FedValue(c, i)[1], 500000)
      [] c = "double_col" /\ i = 2 /\ "double_hi" \in f -> Flt(FedValue(c, i)[1], 100)
      [] c = "string_col" /\ i = 1 /\ "string" \in f -> Cell(FedValue(c, i)[1] + 1)
      [] c = "nullable_int" /\ i = 0 /\ "null_filled" \in f -> Cell(0)
      [] c = "nullable_int" /\ i = 1 /\ "nullable" \in f -> Cell(FedValue(c, i)[1] + 1)
      [] OTHER -> FedValue(c, i)

\* table.num_rows / len(df)
DecodedRows(f) == IF "rows" \in f THEN NumRows - 1 ELSE NumRows

\* table.column(c).to_pylist()
DecodedColumn(f, c) == [j \in 1..DecodedRows(f) |-> DecodedValue(f, c, j - 1)]

\* table.column_names
DecodedNames(f, all) == IF "no_column" \in f THEN all \ {"nullable_int"} ELSE all

(***************************************************************************)
(* The writer's standard output and the manifest parsed from it.  A        *)
(* manifest that is JSON may lack any of its fields; the values of the     *)
(* fields it has describe the table that was fed.                          *)
(***************************************************************************)
\* files = -1: the manifest has no "files" list
NoStdout == [json |-> FALSE, num_rows |-> FALSE, columns |-> FALSE,
             verification |-> FALSE, files |-> -1]

Stdouts ==
    {NoStdout} \cup
    [json : {TRUE}, num_rows : BOOLEAN, columns : BOOLEAN,
     verification : BOOLEAN, files : -1..MaxFiles]

\* cols[c]["first"]
ExpectedFirst(c) == Prefix(FedColumn(c), K)
\* expected["verification"][...]
ExpectedSum == SumCells(FedColumn("int32_col"))
ExpectedLast == FedColumn("int32_col")[NumRows]
ExpectedNulls(c) == CountNone(FedColumn(c))

\* roundtrip_writer.c: #define NUM_ROWS 1000
NUM_ROWS == 1000
\* def_levels[i] = (i % 5 == 0) ? 0 : 1
def_levels(i) == IF i % 5 = 0 THEN 0 ELSE 1
\* the manifest's "null_indices" of nullable_int, as the writer prints it
null_indices == <<0, 5, 10, 15, 20>>

\* a call's result: the exception it raised ("" for none) and the list it returned
Returned(errs) == [exc |-> "", errors |-> errs]
Raised(e) == [exc |-> e, errors |-> <<>>]
\* one discrepancy: the check that failed and the index it names (-1: none)
Err(check, idx) == <<check, idx>>
Opt(cond, e) == IF cond THEN <<e>> ELSE <<>>

\* the float loops: the first index out of tolerance is appended, then break
FirstExceeding(check, vals, exps, tol) ==
    LET bad == {i \in ZipRange(vals, exps) : Exceeds(vals[i + 1], exps[i + 1], tol)}
    IN  IF bad = {} THEN <<>>
        ELSE <<Err(check, CHOOSE i \in bad : \A j \in bad : i <= j)>>

\* verify_comprehensive.verify_with_pyarrow(path, expected, file_info):
\* readable: pq.read_table returned; f: the faults of the table it returned
comp_verify_with_pyarrow(readable, f, m) ==
    LET names == DecodedNames(f, ComprehensiveColumns)
        first(c) == Prefix(DecodedColumn(f, c), K)
        cmp(c) == Opt(first(c) # ExpectedFirst(c), Err(c, -1))
    IN  IF ~readable THEN Returned(<<Err("read", -1)>>)
        ELSE IF ~m.columns THEN Raised("KeyError")
        ELSE IF ComprehensiveColumns \ names # {} THEN Raised("KeyError")
        ELSE IF ~m.verification THEN Raised("KeyError")
        ELSE Returned(
              Opt(DecodedRows(f) # NumRows, Err("num_rows", -1))
           \o cmp("bool_col")
           \o cmp("int32_col")
           \o cmp("int64_col")
           \o FirstExceeding("float_col", first("float_col"),
                             ExpectedFirst("float_col"), TolFloatComprehensive)
           \o FirstExceeding("double_col", first("double_col"),
                             ExpectedFirst("double_col"), TolDoubleComprehensive)
           \o cmp("string_col")
           \o cmp("nullable_int")
           \o Opt(CountNone(DecodedColumn(f, "string_col")) # ExpectedNulls("string_col"),
                  Err("string_nulls", -1))
           \o Opt(CountNone(DecodedColumn(f, "nullable_int")) # ExpectedNulls("nullable_int"),
                  Err("nullable_nulls", -1))
           \o Opt(SumCells(DecodedColumn(f, "int32_col")) # ExpectedSum,
                  Err("int32_sum", -1))
           \o Opt(DecodedColumn(f, "int32_col")[DecodedRows(f)] # ExpectedLast,
                  Err("last_int32", -1)))

\* verify_comprehensive.verify_with_duckdb(path, expected)
comp_verify_with_duckdb(readable, f, m) ==
    IF ~readable THEN Returned(<<Err("read", -1)>>)
    ELSE IF ~m.verification THEN Raised("KeyError")
    ELSE Returned(
              Opt(DecodedRows(f) # NumRows, Err("num_rows", -1))
           \o Opt(SumCells(DecodedColumn(f, "int32_col")) # ExpectedSum,
                  Err("int32_sum", -1)))

\* roundtrip_test: the value checks of step 3, after pq.read_table returned
roundtrip_pyarrow_errors(f) ==
    LET first(c) == Prefix(DecodedColumn(f, c), K)
        cmp(c) == Opt(first(c) # ExpectedFirst(c), Err(c, -1))
        tol(c, t) ==
            Opt(~ \A i \in ZipRange(first(c), ExpectedFirst(c)) :
                      Within(first(c)[i + 1], ExpectedFirst(c)[i + 1], t),
                Err(c, -1))
    IN     cmp("int32_col")
        \o cmp("int64_col")
        \o tol("float_col", TolFloatRoundtrip)
        \o tol("double_col", TolDoubleRoundtrip)
        \o cmp("nullable_int")

\* roundtrip_test: step 4's quick value check on the DuckDB frame
roundtrip_duckdb_ok(f) ==
    /\ DecodedColumn(f, "int32_col")[2] = Cell(10)
    /\ DecodedColumn(f, "int64_col")[2] = Cell(1000000)

(***************************************************************************)
(* State.                                                                  *)
(***************************************************************************)
VARIABLES
    prog,          \* the entry point this process runs
    pc,            \* where it is
    has,           \* which libraries imported (HAS_PYARROW, HAS_PANDAS, HAS_DUCKDB, ...)
    argv,          \* verify_carquet_output: "none", "file", "file_expected" or "generate"
    fs,            \* the artefacts that exist on disk
    created,       \* the artefacts this run created or compiled
    proc,          \* what the compile step and the writer process did
    stdout,        \* the writer's standard output
    fileIdx,       \* run_comprehensive_test: the entry of expected["files"] under test
    total_errors,  \* run_comprehensive_test's accumulator
    events,        \* the external steps taken so far, in order
    failed,        \* the <<file, adapter>> pairs whose check reported discrepancies
    readers,       \* verify_carquet_output: the three adapters' result dicts
    result,        \* how the entry point ended
    comparison,    \* a comparator or adapter called on its own: its arguments and what it returned
    rng,           \* the state of NumPy's process-wide generator (np.random)
    gen,           \* generate_data: the calls made so far and the tables they returned
    written,       \* generate_test_files: the fixture files written so far, in order
    local_files,   \* generate_test_files: the running generator's local list 'files'
    all_files,     \* generate_test_files: main's list
    manifest       \* generate_test_files: the content of manifest.json

vars == <<prog, pc, has, argv, fs, created, proc, stdout, fileIdx, total_errors,
          events, failed, readers, result, comparison, rng, gen,
          written, local_files, all_files, manifest>>

FixtureVars == <<written, local_files, all_files, manifest>>

Progs == {"verify", "comprehensive", "roundtrip", "example"}
Libs == {"pyarrow", "pandas", "duckdb", "numpy", "fastparquet"}
\* returncode of a child process that ended (negative: killed by a signal)
ReturnCodes == {0, 1, -9}

NoResult == [kind |-> "none", code |-> 0, exc |-> ""]
\* return code   (sys.exit(main()) makes it the exit status)
Ret(code) == [kind |-> "return", code |-> code, exc |-> ""]
\* sys.exit(code) at import
Exit(code) == [kind |-> "exit", code |-> code, exc |-> ""]
\* an exception nothing catches: traceback, exit status 1
Raise(e) == [kind |-> "raise", code |-> 1, exc |-> e]

NoProc == [compile |-> "none", run |-> "none", rc |-> 0]
\* no comparator is called on its own, generate_data is not called
NoComparison == [who |-> "none"]
NoGen == [calls |-> <<>>]
\* manifest.json was not written
NoManifest == [libraries |-> {}, files |-> <<>>, exists |-> FALSE]
\* generate_test_files.main is not running
NoFixtures ==
    /\ written = <<>>
    /\ local_files = <<>>
    /\ all_files = <<>>
    /\ manifest = NoManifest

\* the libraries an entry point imports; the others play no part in it
Imports(p) ==
    CASE p = "verify" -> {"pyarrow", "pandas", "duckdb"}
      [] p = "comprehensive" -> {"pyarrow", "numpy", "duckdb"}
      [] p = "roundtrip" -> {"pyarrow", "numpy", "duckdb"}
      [] p = "example" -> {}

\* what may be on disk before the run
Before(p) ==
    CASE p = "verify" -> {"example", "output"}
      [] p = "comprehensive" -> {"lib", "source", "binary"}
      [] p = "roundtrip" -> {"lib", "source", "binary"}
      [] p = "example" -> {"example"}

Init ==
    /\ prog \in Progs
    /\ pc = "start"
    /\ has \in {h \in [Libs -> BOOLEAN] : \A l \in Libs \ Imports(prog) : h[l]}
    /\ argv \in (IF prog = "verify" THEN {"none", "file", "file_expected", "generate"} ELSE {"none"})
    /\ fs \in SUBSET Before(prog)
    /\ created = {}
    /\ proc = NoProc
    /\ stdout = NoStdout
    /\ fileIdx = 0
    /\ total_errors = 0
    /\ events = <<>>
    /\ failed = {}
    /\ readers = [r \in {} |-> 0]
    /\ result = NoResult
    /\ comparison = NoComparison
    /\ rng = 0
    /\ gen = NoGen
    /\ NoFixtures

\* the entry point ends with result r
Finish(r) == pc' = "done" /\ result' = r

(***************************************************************************)
(* interop/verify_carquet_output.py                                        *)
(***************************************************************************)
\* the files main may be pointed at: any row count, any set of columns
MainFiles == {f \in FaultSets : f \subseteq {"rows", "no_column"}}

Unavailable == [error |-> "not available"]
ReadFailure == [success |-> FALSE, error |-> "exception"]
Summary(f) ==
    [success |-> TRUE, num_rows |-> DecodedRows(f),
     num_columns |-> Cardinality(DecodedNames(f, RoundtripColumns))]

\* lst[-n:]
\* a slice taken from the wrong end
SuffixFromStart(lst, n) == SubSeq(lst, 1, Min(n, Len(lst)))

Suffix(lst, n) == SubSeq(lst, Len(lst) - Min(n, Len(lst)) + 1, Len(lst))

\* verify_with_pyarrow's result['columns'][name]
ColumnSummary(col_data) ==
    [num_values |-> Len(col_data),
     null_count |-> CountNone(col_data),
     first_values |-> IF Len(col_data) > 0 THEN Prefix(col_data, 5) ELSE <<>>,
     last_values |-> IF Len(col_data) > 5 THEN Suffix(col_data, 5) ELSE col_data]

\* verify_with_pyarrow's result dict for the table pq.read_table returned
TableSummary(table) ==
    [success |-> TRUE, num_rows |-> table.num_rows,
     num_columns |-> Cardinality(DOMAIN table.columns),
     columns |-> [c \in DOMAIN table.columns |-> ColumnSummary(table.columns[c])]]

\* verify_with_pyarrow's result dict after a successful read
PyArrowSummary(f) ==
    TableSummary([num_rows |-> DecodedRows(f),
                  columns |-> [c \in DecodedNames(f, RoundtripColumns) |->
                                  DecodedColumn(f, c)]])

\* verify_with_pyarrow(parquet_path)
verify_with_pyarrow(h, readable, f) ==
    IF ~h["pyarrow"] THEN Unavailable
    ELSE IF ~readable THEN ReadFailure ELSE PyArrowSummary(f)

\* verify_with_duckdb(parquet_path)
verify_with_duckdb(h, readable, f) ==
    IF ~h["duckdb"] THEN Unavailable
    ELSE IF ~readable THEN ReadFailure ELSE Summary(f)

\* verify_with_pandas(parquet_path)
verify_with_pandas(h, readable, f) ==
    IF ~h["pandas"] \/ ~h["pyarrow"] THEN Unavailable
    ELSE IF ~readable THEN ReadFailure ELSE Summary(f)

\* whether the adapter gets as far as opening the file
Opens(h, r) ==
    CASE r = "pyarrow" -> h["pyarrow"]
      [] r = "duckdb" -> h["duckdb"]
      [] r = "pandas" -> h["pandas"] /\ h["pyarrow"]

\* a tally that also wants the reader's row count to be the one that was fed
SuccessCountChecked(rs) ==
    Cardinality({r \in DOMAIN rs : Get(rs[r], "success", FALSE) /\ rs[r].num_rows = NumRows})

\* sum([pyarrow_result.get('success', False), ...])
success_count(rs) == Cardinality({r \in DOMAIN rs : Get(rs[r], "success", FALSE)})

\* the summary's if / elif / else
SummaryCode(n) == IF n = 3 THEN 0 ELSE IF n > 0 THEN 1 ELSE 2

\* compare_values' float tolerance 1e-6, in units of 1e-11
TolCompareValues == 100000

\* isinstance(v, float)
IsFloat(v) == Len(v) = 2

\* the order in which expected['values'].items() yields the columns
ColumnOrder == <<"int32_col", "int64_col", "float_col", "double_col", "nullable_int">>

\* compare_values' inner loop: for i, (exp, act) in enumerate(zip(expected_vals[:5], actual_vals))
compare_column(col_name, expected_vals, actual_vals) ==
    LET exps == Prefix(expected_vals, 5)
        reported(i) ==
            LET exp == exps[i + 1]
                act == actual_vals[i + 1]
            IN  /\ exp # act /\ ~(exp = NULL /\ act = NULL)
                /\ (IsFloat(exp) /\ IsFloat(act)) => Exceeds(exp, act, TolCompareValues)
    IN  SelectSeq([j \in 1..Min(Len(exps), Len(actual_vals)) |-> Err(col_name, j - 1)],
                  LAMBDA e : reported(e[2]))

RECURSIVE compare_columns(_, _, _)
\* compare_values' outer loop over expected['values']; a column the reader
\* did not return is passed over
compare_columns(order, values, columns) ==
    IF order = <<>> THEN <<>>
    ELSE LET col_name == Head(order)
         IN  (IF col_name \in DOMAIN values /\ col_name \in DOMAIN columns
              THEN compare_column(col_name, values[col_name],
                                  columns[col_name].first_values)
              ELSE <<>>)
             \o compare_columns(Tail(order), values, columns)

\* compare_values(expected, actual_pyarrow, actual_duckdb): the list of errors
compare_values(expected, actual_pyarrow, actual_duckdb) ==
    LET expected_rows == Get(expected, "num_rows", 0)
        expected_cols == Get(expected, "num_columns", 0)
        pyarrow_ok == Get(actual_pyarrow, "success", FALSE)
        duckdb_ok == Get(actual_duckdb, "success", FALSE)
    IN     Opt(pyarrow_ok /\ actual_pyarrow.num_rows # expected_rows,
               Err("pyarrow_rows", -1))
        \o Opt(duckdb_ok /\ actual_duckdb.num_rows # expected_rows,
               Err("duckdb_rows", -1))
        \o Opt(pyarrow_ok /\ actual_pyarrow.num_columns # expected_cols,
               Err("pyarrow_columns", -1))
        \o (IF "values" \in DOMAIN expected /\ pyarrow_ok
            THEN compare_columns(ColumnOrder, expected.values, actual_pyarrow.columns)
            ELSE <<>>)

MainRest == <<prog, has, argv, stdout, fileIdx, total_errors, failed, comparison, rng, gen, FixtureVars>>

\* main with no argument: usage, return 1
MainUsage ==
    /\ prog = "verify" /\ pc = "start" /\ argv = "none"
    /\ Finish(Ret(1))
    /\ UNCHANGED <<MainRest, fs, created, proc, events, readers>>

\* main with a path argument; an expected_data.json after it is never read
MainPath ==
    /\ prog = "verify" /\ pc = "start" /\ argv \in {"file", "file_expected"}
    /\ pc' = "pyarrow"
    /\ UNCHANGED <<MainRest, fs, created, proc, events, readers, result>>

\* main --generate-and-verify, with the whole of test_carquet_basic_write
MainGenerate ==
    /\ prog = "verify" /\ pc = "start" /\ argv = "generate"
    /\ \/ /\ "example" \notin fs
          /\ Finish(Ret(1))
          /\ UNCHANGED <<fs, created, proc, events>>
       \/ /\ "example" \in fs
          /\ events' = events \o <<"invoke", "kill">>
          /\ proc' = [proc EXCEPT !.run = "timeout"]
          /\ Finish(Raise("TimeoutExpired"))
          /\ UNCHANGED <<fs, created>>
       \/ /\ "example" \in fs
          /\ events' = Append(events, "invoke")
          /\ \E rc \in ReturnCodes \ {0} :
                proc' = [proc EXCEPT !.run = "nonzero", !.rc = rc]
          /\ Finish(Ret(1))
          /\ UNCHANGED <<fs, created>>
       \/ /\ "example" \in fs
          /\ events' = Append(events, "invoke")
          /\ proc' = [proc EXCEPT !.run = "ok", !.rc = 0]
          /\ \E wrote \in BOOLEAN :
                /\ fs' = IF wrote THEN fs \cup {"output"} ELSE fs
                /\ created' = IF wrote THEN created \cup {"output"} ELSE created
                /\ IF "output" \in fs'
                   THEN pc' = "pyarrow" /\ result' = result
                   ELSE Finish(Ret(1))
    /\ UNCHANGED <<MainRest, readers>>

\* "Testing with PyArrow..."
TestPyArrow ==
    /\ prog = "verify" /\ pc = "pyarrow"
    /\ \E readable \in BOOLEAN, f \in MainFiles :
          readers' = readers @@ ("pyarrow" :> verify_with_pyarrow(has, readable, f))
    /\ events' = IF Opens(has, "pyarrow") THEN Append(events, "pyarrow") ELSE events
    /\ pc' = "duckdb"
    /\ UNCHANGED <<MainRest, fs, created, proc, result>>

\* "Testing with DuckDB..."
TestDuckDB ==
    /\ prog = "verify" /\ pc = "duckdb"
    /\ \E readable \in BOOLEAN, f \in MainFiles :
          readers' = readers @@ ("duckdb" :> verify_with_duckdb(has, readable, f))
    /\ events' = IF Opens(has, "duckdb") THEN Append(events, "duckdb") ELSE events
    /\ pc' = "pandas"
    /\ UNCHANGED <<MainRest, fs, created, proc, result>>

\* "Testing with pandas..."
TestPandas ==
    /\ prog = "verify" /\ pc = "pandas"
    /\ \E readable \in BOOLEAN, f \in MainFiles :
          readers' = readers @@ ("pandas" :> verify_with_pandas(has, readable, f))
    /\ events' = IF Opens(has, "pandas") THEN Append(events, "pandas") ELSE events
    /\ pc' = "summary"
    /\ UNCHANGED <<MainRest, fs, created, proc, result>>

\* "Summary": the exit code
MainSummary ==
    /\ prog = "verify" /\ pc = "summary"
    /\ Finish(Ret(SummaryCode(success_count(readers))))
    /\ UNCHANGED <<MainRest, fs, created, proc, events, readers>>

\* run_carquet_example(example_path, output_path): True is 1, False is 0
RunCarquetExample ==
    /\ prog = "example" /\ pc = "start"
    /\ \/ /\ "example" \notin fs
          /\ proc' = proc /\ events' = events
          /\ Finish(Ret(0))
       \/ /\ "example" \in fs
          /\ events' = events \o <<"invoke", "kill">>
          /\ proc' = [proc EXCEPT !.run = "timeout"]
          /\ Finish(Ret(0))
       \/ /\ "example" \in fs
          /\ events' = Append(events, "invoke")
          /\ \E rc \in ReturnCodes :
                /\ proc' = [proc EXCEPT !.run = IF rc = 0 THEN "ok" ELSE "nonzero", !.rc = rc]
                /\ Finish(Ret(IF rc = 0 THEN 1 ELSE 0))
    /\ UNCHANGED <<MainRest, fs, created, readers>>

VerifyNext ==
    \/ MainUsage \/ MainPath \/ MainGenerate
    \/ TestPyArrow \/ TestDuckDB \/ TestPandas \/ MainSummary
    \/ RunCarquetExample

(***************************************************************************)
(* Steps the two orchestrators share.                                      *)
(***************************************************************************)
\* the import guard at the top of the module: sys.exit(1) when one is missing
ImportsOk(h, p) == \A l \in Imports(p) : h[l]

\* the exit status is ignored
WriterNeverFailed(rc) == FALSE
\* a returncode test that overlooks a child killed by a signal
WriterFailedPositiveOnly(rc) == rc > 0

\* "if result.returncode != 0" after the writer ran
WriterFailed(rc) == rc # 0

\* a build step that returns the binary's path whatever the compiler said
BuiltBinaryUnchecked(compile_rc) == "binary"

\* build_*_writer's return value: None ("") after a compile failure
BuiltBinary(compile_rc) == IF compile_rc # 0 THEN "" ELSE "binary"

\* a parse whose error is swallowed
JsonLoadsLenient(out) == ""

\* json.loads(result.stdout): the exception it raises, "" for none
JsonLoads(out) == IF out.json THEN "" ELSE "JSONDecodeError"

(***************************************************************************)
(* interop/roundtrip_test.py                                               *)
(***************************************************************************)
\* the finally clause of run_roundtrip_test
RtFinally(files) == files \ {"parquet"}

RtRest == <<prog, has, argv, fileIdx, total_errors, readers, comparison, rng, gen, FixtureVars>>

\* the import guard
RtImport ==
    /\ prog = "roundtrip" /\ pc = "start"
    /\ IF ImportsOk(has, prog)
       THEN pc' = "lib" /\ result' = result
       ELSE Finish(Exit(1))
    /\ UNCHANGED <<RtRest, fs, created, proc, stdout, events, failed>>

\* "Check if library exists"
RtCheckLibrary ==
    /\ prog = "roundtrip" /\ pc = "lib"
    /\ IF "lib" \in fs
       THEN pc' = "build" /\ result' = result
       ELSE Finish(Ret(1))
    /\ UNCHANGED <<RtRest, fs, created, proc, stdout, events, failed>>

\* "Step 1": build_roundtrip_writer, which writes the C source when it is
\* missing and always compiles
RtBuild ==
    /\ prog = "roundtrip" /\ pc = "build"
    /\ events' = Append(events, "compile")
    /\ \E compile_rc \in {0, 1} :
          LET binary == BuiltBinary(compile_rc)
              wrote == (IF "source" \in fs THEN {} ELSE {"source"})
                       \cup (IF compile_rc = 0 THEN {"binary"} ELSE {})
          IN  /\ proc' = [proc EXCEPT !.compile = IF compile_rc = 0 THEN "ok" ELSE "failed"]
              /\ fs' = fs \cup wrote
              /\ created' = created \cup wrote
              /\ IF binary = ""
                 THEN Finish(Ret(1))
                 ELSE pc' = "temp" /\ result' = result
    /\ UNCHANGED <<RtRest, stdout, failed>>

\* tempfile.NamedTemporaryFile(suffix='.parquet', delete=False)
RtTemp ==
    /\ prog = "roundtrip" /\ pc = "temp"
    /\ fs' = fs \cup {"parquet"}
    /\ created' = created \cup {"parquet"}
    /\ pc' = "run"
    /\ UNCHANGED <<RtRest, proc, stdout, events, failed, result>>

\* "Step 2": subprocess.run([binary, parquet_path], timeout=30)
RtRunWriter ==
    /\ prog = "roundtrip" /\ pc = "run"
    /\ \/ /\ events' = events \o <<"invoke", "kill">>
          /\ proc' = [proc EXCEPT !.run = "timeout"]
          /\ stdout' = stdout
          /\ fs' = RtFinally(fs)
          /\ Finish(Raise("TimeoutExpired"))
       \/ /\ events' = Append(events, "invoke")
          /\ \E rc \in ReturnCodes, out \in Stdouts :
                /\ proc' = [proc EXCEPT !.run = IF rc = 0 THEN "ok" ELSE "nonzero", !.rc = rc]
                /\ stdout' = out
                /\ IF WriterFailed(rc)
                   THEN fs' = RtFinally(fs) /\ Finish(Ret(1))
                   ELSE fs' = fs /\ pc' = "parse" /\ result' = result
    /\ UNCHANGED <<RtRest, created, failed>>

\* expected = json.loads(result.stdout); print(expected['num_rows'])
RtParse ==
    /\ prog = "roundtrip" /\ pc = "parse"
    /\ events' = Append(events, "parse")
    /\ IF JsonLoads(stdout) # ""
       THEN fs' = RtFinally(fs) /\ Finish(Raise(JsonLoads(stdout)))
       ELSE IF ~stdout.num_rows
       THEN fs' = RtFinally(fs) /\ Finish(Raise("KeyError"))
       ELSE fs' = fs /\ pc' = "pyarrow" /\ result' = result
    /\ UNCHANGED <<RtRest, created, proc, stdout, failed>>

\* "Step 3": read with PyArrow and compare; every exception is caught
RtPyArrow ==
    /\ prog = "roundtrip" /\ pc = "pyarrow"
    /\ events' = Append(events, "pyarrow")
    /\ \E readable \in BOOLEAN, f \in FaultSets :
          LET errors == roundtrip_pyarrow_errors(f)
              caught == \/ ~readable
                        \/ ~stdout.columns
                        \/ RoundtripColumns \ DecodedNames(f, RoundtripColumns) # {}
          IN  /\ failed' = IF caught \/ errors # <<>>
                           THEN failed \cup {<<1, "pyarrow">>} ELSE failed
              /\ IF caught \/ errors # <<>>
                 THEN fs' = RtFinally(fs) /\ Finish(Ret(1))
                 ELSE fs' = fs /\ pc' = "duckdb" /\ result' = result
    /\ UNCHANGED <<RtRest, created, proc, stdout>>

\* "Step 4": read with DuckDB, the quick value check, and the summary
RtDuckDB ==
    /\ prog = "roundtrip" /\ pc = "duckdb"
    /\ events' = Append(events, "duckdb")
    /\ \E readable \in BOOLEAN, f \in FaultSets :
          LET ok == readable /\ roundtrip_duckdb_ok(f)
          IN  /\ failed' = IF ok THEN failed ELSE failed \cup {<<1, "duckdb">>}
              /\ Finish(Ret(IF ok THEN 0 ELSE 1))
    /\ fs' = RtFinally(fs)
    /\ UNCHANGED <<RtRest, created, proc, stdout>>

RoundtripNext ==
    \/ RtImport \/ RtCheckLibrary \/ RtBuild \/ RtTemp
    \/ RtRunWriter \/ RtParse \/ RtPyArrow \/ RtDuckDB

(***************************************************************************)
(* interop/verify_comprehensive.py                                         *)
(***************************************************************************)
\* leaving "with tempfile.TemporaryDirectory() as tmpdir"
WithExit(files) == files \ {"tmpdir"}

\* "Cleanup binary": unlink it, and its .dSYM, when it exists
CleanupBinary(files) == IF "binary" \in files THEN files \ {"binary", "dsym"} ELSE files

\* "total_errors = len(errs)": an assignment where the sum was meant
AccumulateAssign(total, errs) == Len(errs)

\* "if pa_errors: ... total_errors += len(pa_errors)"
Accumulate(total, errs) == IF errs # <<>> THEN total + Len(errs) ELSE total

\* the summary's return value
ComprehensiveCode(total) == IF total = 0 THEN 0 ELSE 1

CompRest == <<prog, has, argv, readers, comparison, rng, gen, FixtureVars>>

\* the import guard
CompImport ==
    /\ prog = "comprehensive" /\ pc = "start"
    /\ IF ImportsOk(has, prog)
       THEN pc' = "lib" /\ result' = result
       ELSE Finish(Exit(1))
    /\ UNCHANGED <<CompRest, fs, created, proc, stdout, fileIdx, total_errors, events, failed>>

\* "Check library"
CompCheckLibrary ==
    /\ prog = "comprehensive" /\ pc = "lib"
    /\ IF "lib" \in fs
       THEN pc' = "build" /\ result' = result
       ELSE Finish(Ret(1))
    /\ UNCHANGED <<CompRest, fs, created, proc, stdout, fileIdx, total_errors, events, failed>>

\* "Build writer": build_comprehensive_writer, which returns None without
\* compiling when the C source is missing
CompBuild ==
    /\ prog = "comprehensive" /\ pc = "build"
    /\ \/ /\ "source" \notin fs
          /\ Finish(Ret(1))
          /\ UNCHANGED <<fs, created, proc, events>>
       \/ /\ "source" \in fs
          /\ events' = Append(events, "compile")
          /\ \E compile_rc \in {0, 1}, dsym \in BOOLEAN :
                LET binary == BuiltBinary(compile_rc)
                    wrote == IF compile_rc # 0 THEN {}
                             ELSE IF dsym THEN {"binary", "dsym"} ELSE {"binary"}
                IN  /\ proc' = [proc EXCEPT !.compile = IF compile_rc = 0 THEN "ok" ELSE "failed"]
                    /\ fs' = fs \cup wrote
                    /\ created' = created \cup wrote
                    /\ IF binary = ""
                       THEN Finish(Ret(1))
                       ELSE pc' = "temp" /\ result' = result
    /\ UNCHANGED <<CompRest, stdout, fileIdx, total_errors, failed>>

\* with tempfile.TemporaryDirectory() as tmpdir
CompTemp ==
    /\ prog = "comprehensive" /\ pc = "temp"
    /\ fs' = fs \cup {"tmpdir"}
    /\ created' = created \cup {"tmpdir"}
    /\ pc' = "run"
    /\ UNCHANGED <<CompRest, proc, stdout, fileIdx, total_errors, events, failed, result>>

\* "Run writer": subprocess.run([binary, tmpdir], timeout=60)
CompRunWriter ==
    /\ prog = "comprehensive" /\ pc = "run"
    /\ \/ /\ events' = events \o <<"invoke", "kill">>
          /\ proc' = [proc EXCEPT !.run = "timeout"]
          /\ stdout' = stdout
          /\ fs' = WithExit(fs)
          /\ Finish(Raise("TimeoutExpired"))
       \/ /\ events' = Append(events, "invoke")
          /\ \E rc \in ReturnCodes, out \in Stdouts :
                /\ proc' = [proc EXCEPT !.run = IF rc = 0 THEN "ok" ELSE "nonzero", !.rc = rc]
                /\ stdout' = out
                /\ IF WriterFailed(rc)
                   THEN fs' = WithExit(fs) /\ Finish(Ret(1))
                   ELSE fs' = fs /\ pc' = "parse" /\ result' = result
    /\ UNCHANGED <<CompRest, created, fileIdx, total_errors, failed>>

\* expected = json.loads(result.stdout); the print that reads expected['files']
\* and expected['num_rows']; total_errors = 0; the loop's first iteration
CompParse ==
    /\ prog = "comprehensive" /\ pc = "parse"
    /\ events' = Append(events, "parse")
    /\ total_errors' = 0
    /\ IF JsonLoads(stdout) # ""
       THEN fs' = WithExit(fs) /\ Finish(Raise(JsonLoads(stdout))) /\ fileIdx' = fileIdx
       ELSE IF stdout.files < 0 \/ ~stdout.num_rows
       THEN fs' = WithExit(fs) /\ Finish(Raise("KeyError")) /\ fileIdx' = fileIdx
       ELSE /\ fs' = fs /\ result' = result
            /\ IF stdout.files = 0
               THEN pc' = "finish" /\ fileIdx' = fileIdx
               ELSE pc' = "pyarrow" /\ fileIdx' = 1
    /\ UNCHANGED <<CompRest, created, proc, stdout, failed>>

\* "# PyArrow" for the file under test
CompPyArrow ==
    /\ prog = "comprehensive" /\ pc = "pyarrow"
    /\ events' = Append(events, "pyarrow")
    /\ \E readable \in BOOLEAN, f \in FaultSets :
          LET pa == comp_verify_with_pyarrow(readable, f, stdout)
          IN  IF pa.exc # ""
              THEN /\ fs' = WithExit(fs) /\ Finish(Raise(pa.exc))
                   /\ UNCHANGED <<total_errors, failed>>
              ELSE /\ total_errors' = Accumulate(total_errors, pa.errors)
                   /\ failed' = IF pa.errors # <<>>
                                THEN failed \cup {<<fileIdx, "pyarrow">>} ELSE failed
                   /\ fs' = fs /\ pc' = "duckdb" /\ result' = result
    /\ UNCHANGED <<CompRest, created, proc, stdout, fileIdx>>

\* "# DuckDB" for the file under test, and the step to the next file
CompDuckDB ==
    /\ prog = "comprehensive" /\ pc = "duckdb"
    /\ events' = Append(events, "duckdb")
    /\ \E readable \in BOOLEAN, f \in FaultSets :
          LET db == comp_verify_with_duckdb(readable, f, stdout)
          IN  IF db.exc # ""
              THEN /\ fs' = WithExit(fs) /\ Finish(Raise(db.exc))
                   /\ UNCHANGED <<total_errors, failed, fileIdx>>
              ELSE /\ total_errors' = Accumulate(total_errors, db.errors)
                   /\ failed' = IF db.errors # <<>>
                                THEN failed \cup {<<fileIdx, "duckdb">>} ELSE failed
                   /\ fs' = fs /\ result' = result
                   /\ IF fileIdx < stdout.files
                      THEN pc' = "pyarrow" /\ fileIdx' = fileIdx + 1
                      ELSE pc' = "finish" /\ fileIdx' = fileIdx
    /\ UNCHANGED <<CompRest, created, proc, stdout>>

\* the end of the with block, "Cleanup binary" and "Summary"
CompFinish ==
    /\ prog = "comprehensive" /\ pc = "finish"
    /\ fs' = CleanupBinary(WithExit(fs))
    /\ Finish(Ret(ComprehensiveCode(total_errors)))
    /\ UNCHANGED <<CompRest, created, proc, stdout, fileIdx, total_errors, events, failed>>

ComprehensiveNext ==
    \/ CompImport \/ CompCheckLibrary \/ CompBuild \/ CompTemp \/ CompRunWriter
    \/ CompParse \/ CompPyArrow \/ CompDuckDB \/ CompFinish

(***************************************************************************)
(* The specification.                                                      *)
(***************************************************************************)
Next == VerifyNext \/ RoundtripNext \/ ComprehensiveNext

Spec == Init /\ [][Next]_vars

(***************************************************************************)
(* The comparators called on their own: Init draws the arguments (the      *)
(* reader's outcome and the faults of the file it decoded), one action per *)
(* comparator applies it.                                                  *)
(***************************************************************************)
Comparators ==
    {"compare_values", "comprehensive_pyarrow", "comprehensive_duckdb", "roundtrip_pyarrow"}
Outcomes == {"ok", "failed", "unavailable"}

\* the process state the comparators do not touch
Idle(p) ==
    /\ prog = p
    /\ has = [l \in Libs |-> TRUE]
    /\ argv = "none"
    /\ fs = {}
    /\ created = {}
    /\ proc = NoProc
    /\ stdout = NoStdout
    /\ fileIdx = 0
    /\ total_errors = 0
    /\ events = <<>>
    /\ failed = {}
    /\ readers = [r \in {} |-> 0]
    /\ result = NoResult

IdleVars == <<prog, has, argv, fs, created, proc, stdout, fileIdx, total_errors,
              events, failed, readers, result>>

\* the arguments: pa/f the PyArrow adapter's outcome and file, db/g DuckDB's,
\* values whether the expected dict has a 'values' entry
ComparisonInputs ==
    {c \in [who : Comparators, pa : Outcomes, f : FaultSets, db : Outcomes,
            g : MainFiles, values : BOOLEAN] :
        c.who # "compare_values" =>
            c.pa # "unavailable" /\ c.db = "ok" /\ c.g = {} /\ c.values}

\* a complete manifest
FullManifest == [json |-> TRUE, num_rows |-> TRUE, columns |-> TRUE,
                 verification |-> TRUE, files |-> 1]

\* the expected dict compare_values is handed: the table that was fed
Expected(values) ==
    IF values
    THEN [num_rows |-> NumRows, num_columns |-> Cardinality(RoundtripColumns),
          values |-> [c \in RoundtripColumns |-> FedColumn(c)]]
    ELSE [num_rows |-> NumRows, num_columns |-> Cardinality(RoundtripColumns)]

\* the has-flags with which an adapter gives the outcome o
HasFor(lib, o) == [l \in Libs |-> l # lib \/ o # "unavailable"]

InitComparison ==
    /\ Idle("comparator")
    /\ pc = "start"
    /\ \E c \in ComparisonInputs :
          comparison = c @@ [done |-> FALSE, exc |-> "", errors |-> <<>>]
    /\ rng = 0
    /\ gen = NoGen
    /\ NoFixtures

Compared(out) ==
    /\ comparison' = [comparison EXCEPT !.done = TRUE, !.exc = out.exc,
                                         !.errors = out.errors]
    /\ pc' = "done"
    /\ UNCHANGED <<IdleVars, rng, gen, FixtureVars>>

CompareValues ==
    /\ pc = "start" /\ comparison.who = "compare_values"
    /\ Compared(Returned(compare_values(
          Expected(comparison.values),
          verify_with_pyarrow(HasFor("pyarrow", comparison.pa),
                              comparison.pa = "ok", comparison.f),
          verify_with_duckdb(HasFor("duckdb", comparison.db),
                             comparison.db = "ok", comparison.g))))

ComprehensivePyArrow ==
    /\ pc = "start" /\ comparison.who = "comprehensive_pyarrow"
    /\ Compared(comp_verify_with_pyarrow(comparison.pa = "ok", comparison.f, FullManifest))

ComprehensiveDuckDB ==
    /\ pc = "start" /\ comparison.who = "comprehensive_duckdb"
    /\ Compared(comp_verify_with_duckdb(comparison.pa = "ok", comparison.f, FullManifest))

\* roundtrip_test step 3: an exception of the read or of a column lookup is
\* caught ("FAILED"), the checks that ran otherwise leave their errors
RoundtripPyArrow ==
    /\ pc = "start" /\ comparison.who = "roundtrip_pyarrow"
    /\ Compared(IF \/ comparison.pa # "ok"
                   \/ RoundtripColumns \ DecodedNames(comparison.f, RoundtripColumns) # {}
                THEN Raised("caught")
                ELSE Returned(roundtrip_pyarrow_errors(comparison.f)))

NextComparison ==
    CompareValues \/ ComprehensivePyArrow \/ ComprehensiveDuckDB \/ RoundtripPyArrow

SpecComparison == InitComparison /\ [][NextComparison]_vars

(***************************************************************************)
(* benchmark/generate_test_files.py: generate_data, and the other caller   *)
(* of np.random, benchmark_pyarrow.benchmark_write.  The generator is one  *)
(* process-wide state; a draw returns a number and steps the state.        *)
(***************************************************************************)
\* def generate_data(num_rows, seed=42)
DefaultSeed == 42
Seeds == {DefaultSeed, DefaultSeed + 1}

\* a seed that leaves the generator where it is
SeedIgnored(state, seed) == state
\* np.random.seed(seed): the state becomes a function of the seed alone
np_random_seed(state, seed) == seed % RngMod

\* one draw: the next state, which is also the raw number drawn
Step(state) == (5 * state + 3) % RngMod

RECURSIVE Draws(_, _)
\* the raw numbers of a draw of size n from state
Draws(state, n) ==
    IF n = 0 THEN <<>> ELSE <<Step(state)>> \o Draws(Step(state), n - 1)

RECURSIVE After(_, _)
\* the state after a draw of size n
After(state, n) == IF n = 0 THEN state ELSE After(Step(state), n - 1)

\* np.random.randint(low, high, n)
randint(state, low, high, n) ==
    [i \in 1..n |-> low + (Draws(state, n)[i] % (high - low))]
\* np.random.random(n): the value u stands for u / RngMod
random(state, n) == Draws(state, n)

\* generate_data(num_rows, seed): the table returned and the state the
\* generator is left in; state is the generator's state at the call
generate_data(state, num_rows, seed) ==
    LET s0 == np_random_seed(state, seed)
        s1 == After(s0, num_rows)
        s2 == After(s1, num_rows)
        s3 == After(s2, num_rows)
        s4 == After(s3, num_rows)
        s5 == After(s4, num_rows)
        s6 == After(s5, num_rows)
        rows == 1..num_rows
        noise == randint(s0, 0, 100, num_rows)
        nullable_col == random(s5, num_rows)
        \* random < 0.1
        null_mask == [i \in rows |-> (random(s6, num_rows)[i] * 10) < RngMod]
    IN  [table |->
            [id |-> [i \in rows |-> (i - 1) * 1000 + noise[i]],
             value_i32 |-> randint(s1, 0, 1000000, num_rows),
             \* <<i, u>> is i * 0.001 + u * 0.01
             value_f64 |-> [i \in rows |-> <<i - 1, random(s2, num_rows)[i]>>],
             value_f32 |-> random(s3, num_rows),
             category |-> randint(s4, 0, 100, num_rows),
             nullable_val |-> [i \in rows |->
                                 IF null_mask[i] THEN NULL ELSE Cell(nullable_col[i])]],
         rng |-> After(s6, num_rows)]

\* benchmark_write's draws: seed(42), randint, normal, randint
benchmark_write(state, num_rows) ==
    After(np_random_seed(state, 42), 3 * num_rows)

InitGenerate ==
    /\ Idle("generator")
    /\ pc = "start"
    /\ comparison = NoComparison
    /\ rng \in 0..(RngMod - 1)
    /\ gen = NoGen
    /\ NoFixtures

\* a call of generate_data; the call and what it returned are logged
GenerateData ==
    /\ Len(gen.calls) < MaxCalls
    /\ \E num_rows \in 0..MaxGenRows, seed \in Seeds :
          LET out == generate_data(rng, num_rows, seed)
          IN  /\ rng' = out.rng
              /\ gen' = [calls |-> Append(gen.calls,
                            [fn |-> "generate_data", num_rows |-> num_rows, seed |-> seed,
                             before |-> rng, table |-> out.table, after |-> out.rng])]
    /\ UNCHANGED <<IdleVars, pc, comparison, FixtureVars>>

\* a call of benchmark_write
BenchmarkWrite ==
    /\ Len(gen.calls) < MaxCalls
    /\ \E num_rows \in 0..MaxGenRows :
          /\ rng' = benchmark_write(rng, num_rows)
          /\ gen' = [calls |-> Append(gen.calls,
                        [fn |-> "benchmark_write", num_rows |-> num_rows, seed |-> 42,
                         before |-> rng, table |-> <<>>, after |-> rng'])]
    /\ UNCHANGED <<IdleVars, pc, comparison, FixtureVars>>

NextGenerate == GenerateData \/ BenchmarkWrite

SpecGenerate == InitGenerate /\ [][NextGenerate]_vars

(***************************************************************************)
(* interop/generate_test_files.py: main runs the three producers in turn,  *)
(* each of which writes its fixture files one after the other, and then    *)
(* writes manifest.json.  has is AVAILABLE_LIBS, fileIdx the producer that *)
(* is running.                                                             *)
(***************************************************************************)
(* The PyArrow adapter of verify_carquet_output as a pure function of the  *)
(* table it read: tables of up to MaxColLen rows, each cell its row index  *)
(* or None.                                                                *)
(***************************************************************************)
MaxColLen == 6
SummaryColumns == {"id", "value"}

\* the columns of n rows
ColumnsOf(n) ==
    {[i \in 1..n |-> IF i \in S THEN NULL ELSE Cell(i - 1)] : S \in SUBSET (1..n)}

\* the tables pq.read_table may return
Tables ==
    UNION {{[num_rows |-> n, columns |-> cols] : cols \in [names -> ColumnsOf(n)]} :
              n \in 0..MaxColLen, names \in SUBSET SummaryColumns}

InitSummary ==
    /\ Idle("adapter")
    /\ pc = "start"
    /\ \E table \in Tables :
          comparison = [who |-> "verify_with_pyarrow", table |-> table,
                        done |-> FALSE, out |-> Unavailable]
    /\ rng = 0
    /\ gen = NoGen
    /\ NoFixtures

\* verify_with_pyarrow(parquet_path) on a readable file
VerifyWithPyArrow ==
    /\ prog = "adapter" /\ pc = "start"
    /\ comparison' = [comparison EXCEPT !.done = TRUE,
                                         !.out = TableSummary(comparison.table)]
    /\ pc' = "done"
    /\ UNCHANGED <<IdleVars, rng, gen, FixtureVars>>

NextSummary == VerifyWithPyArrow

SpecSummary == InitSummary /\ [][NextSummary]_vars

(***************************************************************************)
\* main's calls, in order
Producers == <<"pyarrow", "duckdb", "fastparquet">>

\* the libraries a producer's guard looks up in AVAILABLE_LIBS
Requires(producer) ==
    IF producer = "fastparquet" THEN {"fastparquet", "pandas"} ELSE {producer}

\* the files a producer writes, in order: <<name, compression>>
Fixtures(producer) ==
    CASE producer = "pyarrow" ->
           << <<"basic_types_uncompressed", "NONE">>, <<"basic_types_snappy", "SNAPPY">>,
              <<"basic_types_gzip", "GZIP">>, <<"basic_types_zstd", "ZSTD">>,
              <<"basic_types_lz4", "LZ4">>, <<"large_dataset", "ZSTD">>,
              <<"dictionary_encoded", "NONE">>, <<"multiple_row_groups", "NONE">>,
              <<"all_nulls", "NONE">>, <<"empty_table", "NONE">>,
              <<"binary_data", "NONE">>, <<"datetime_types", "NONE">>,
              <<"decimal_types", "NONE">>, <<"delta_encoded", "NONE">> >>
      [] producer = "duckdb" ->
           << <<"duckdb_basic", "NONE">>, <<"duckdb_zstd", "ZSTD">>,
              <<"duckdb_nulls", "NONE">> >>
      [] producer = "fastparquet" ->
           << <<"fastparquet_basic", "NONE">>, <<"fastparquet_snappy", "SNAPPY">> >>

\* output_dir / producer / (name + ".parquet")
FixturePath(producer, name) == <<producer, name>>

\* output_dir / "manifest.json"
ManifestPath == <<"", "manifest.json">>

\* the tuple a generator appends: (name, str(path), producer, compression)
FileTuple(producer, item) ==
    <<item[1], FixturePath(producer, item[1]), producer, item[2]>>

\* all_files = files: the list is replaced, not extended
ExtendReplaces(all, more) == more
\* all_files.extend(more)
Extend(all, more) == all \o more

\* the manifest dict main dumps
Manifest(libs, all) ==
    [libraries |-> libs,
     files |-> [i \in DOMAIN all |->
                  [name |-> all[i][1], path |-> all[i][2],
                   producer |-> all[i][3], compression |-> all[i][4]]],
     exists |-> TRUE]

InitFixtures ==
    /\ prog = "fixtures"
    /\ pc = "start"
    /\ has \in [Libs -> BOOLEAN]
    /\ argv = "none"
    /\ fs = {}
    /\ created = {}
    /\ proc = NoProc
    /\ stdout = NoStdout
    /\ fileIdx = 0
    /\ total_errors = 0
    /\ events = <<>>
    /\ failed = {}
    /\ readers = [r \in {} |-> 0]
    /\ result = NoResult
    /\ comparison = NoComparison
    /\ rng = 0
    /\ gen = NoGen
    /\ NoFixtures

FxRest == <<prog, has, argv, created, proc, stdout, total_errors, events, failed,
            readers, comparison, gen>>

\* main up to the first producer: output_dir.mkdir, all_files = []
FxMain ==
    /\ prog = "fixtures" /\ pc = "start"
    /\ all_files' = <<>>
    /\ fileIdx' = 1
    /\ pc' = "call"
    /\ UNCHANGED <<FxRest, fs, rng, result, written, local_files, manifest>>

\* generate_*_files(output_dir) up to its first file: without its library
\* the producer returns [] at once, else files = [] and its directory is made
FxGenerate ==
    /\ prog = "fixtures" /\ pc = "call" /\ fileIdx \in DOMAIN Producers
    /\ IF \E l \in Requires(Producers[fileIdx]) : ~has[l]
       THEN /\ all_files' = Extend(all_files, <<>>)
            /\ fileIdx' = fileIdx + 1
            /\ UNCHANGED <<pc, local_files>>
       ELSE /\ local_files' = <<>>
            /\ pc' = "write"
            /\ UNCHANGED <<all_files, fileIdx>>
    /\ UNCHANGED <<FxRest, fs, rng, result, written, manifest>>

\* the next file of the running producer: the write may raise, which ends
\* main; after its last file the producer returns files and main extends
\* all_files.  large_dataset imports numpy and draws from np.random.
FxWrite ==
    /\ prog = "fixtures" /\ pc = "write"
    /\ LET producer == Producers[fileIdx]
           k == Len(local_files) + 1
           item == Fixtures(producer)[k]
           large == item[1] = "large_dataset"
       IN  IF large /\ ~has["numpy"]
           THEN /\ Finish(Raise("ImportError"))
                /\ UNCHANGED <<fs, rng, written, local_files, all_files, fileIdx>>
           ELSE /\ IF large THEN rng' \in 0..(RngMod - 1) ELSE rng' = rng
                /\ \E ok \in BOOLEAN :
                      IF ok
                      THEN /\ fs' = fs \cup {FixturePath(producer, item[1])}
                           /\ written' = Append(written, FixturePath(producer, item[1]))
                           /\ local_files' = Append(local_files, FileTuple(producer, item))
                           /\ IF k = Len(Fixtures(producer))
                              THEN /\ all_files' = Extend(all_files, local_files')
                                   /\ fileIdx' = fileIdx + 1
                                   /\ pc' = "call"
                              ELSE UNCHANGED <<all_files, fileIdx, pc>>
                           /\ result' = result
                      ELSE /\ Finish(Raise("write"))
                           /\ UNCHANGED <<fs, written, local_files, all_files, fileIdx>>
    /\ UNCHANGED <<FxRest, manifest>>

\* "Write manifest": json.dump(manifest, f), return 0
FxManifest ==
    /\ prog = "fixtures" /\ pc = "call" /\ fileIdx > Len(Producers)
    /\ \E ok \in BOOLEAN :
          IF ok
          THEN /\ manifest' = Manifest({l \in Libs \ {"numpy"} : has[l]}, all_files)
               /\ fs' = fs \cup {ManifestPath}
               /\ Finish(Ret(0))
          ELSE /\ Finish(Raise("OSError"))
               /\ UNCHANGED <<manifest, fs>>
    /\ UNCHANGED <<FxRest, rng, fileIdx, written, local_files, all_files>>

NextFixtures == FxMain \/ FxGenerate \/ FxWrite \/ FxManifest

SpecFixtures == InitFixtures /\ [][NextFixtures]_vars

(***************************************************************************)
(* Properties.                                                             *)
(***************************************************************************)
Done == pc = "done"
Ran(e) == \E i \in DOMAIN events : events[i] = e
Count(e) == Cardinality({i \in DOMAIN events : events[i] = e})
NoReaderRan == \A i \in DOMAIN events : events[i] \notin {"pyarrow", "duckdb", "pandas"}
Orchestrators == {"roundtrip", "comprehensive"}
Readers == {"pyarrow", "duckdb", "pandas"}
SummaryReached == prog = "verify" /\ Done /\ DOMAIN readers = Readers
Available == {r \in Readers : Opens(has, r)}
Passed == {r \in DOMAIN readers : Get(readers[r], "success", FALSE)}
\* the exit code a tally over the adapters in S alone gives
TallyCode(S) ==
    IF S \subseteq Passed THEN 0 ELSE IF S \cap Passed # {} THEN 1 ELSE 2
\* how an entry point ends after a logic failure (the writer's nonzero exit)
LogicFailure(p) == IF p = "example" THEN Ret(0) ELSE Ret(1)

\* C1: main's exit code is 0 exactly when all available readers passed, 2
\* exactly when no reader could open the file, and 1 otherwise (an available
\* reader failed while another passed, or the candidate writer failed), for
\* every combination of success, read failure and unavailable.
C1_ExitCodeContract ==
    /\ SummaryReached =>
          /\ result.code = 2 <=> Passed = {}
          /\ result.code = 0 <=> (Passed # {} /\ Available \subseteq Passed)
          /\ result.code = 1 <=> (Passed # {} /\ ~(Available \subseteq Passed))
    /\ (prog = "verify" /\ Done /\ proc.run = "nonzero") => result.code = 1

\* C2: an unavailable adapter's outcome differs from a read failure, and the
\* exit code with it unavailable is the one the available adapters alone give.
C2_UnavailableExcluded ==
    (SummaryReached /\ Available # {} /\ Available # Readers) =>
        /\ \A r \in Readers \ Available :
              readers[r] # ReadFailure /\ "success" \notin DOMAIN readers[r]
        /\ result.code = TallyCode(Available)

\* C3: a run returns 0 only if no adapter reported a discrepancy for any file;
\* once an adapter has returned a non-empty error list, total_errors is
\* non-zero and the run does not end with code 0.
C3_PassedOnlyIfNoDiscrepancy ==
    /\ (prog = "comprehensive" /\ failed # {}) => total_errors > 0
    /\ (prog \in Orchestrators /\ Done /\ failed # {}) => result.code # 0
    /\ (prog \in Orchestrators /\ Done /\ result = Ret(0)) => failed = {}

\* C3's case: a comprehensive run over two files that both adapters found clean
C3_Witness ==
    /\ prog = "comprehensive" /\ Done /\ result = Ret(0)
    /\ fileIdx >= 2 /\ Count("pyarrow") >= 2 /\ Count("duckdb") >= 2

\* C4: in every terminal state of the two orchestrators nothing the run
\* created (temporary file or directory, generated source, compiled binary)
\* still exists.
C4_CleanupOnEveryExit ==
    (prog \in Orchestrators /\ Done) => created \cap fs = {}

\* C5: after the writer exits nonzero the run has ended with a failure code,
\* its stdout was never parsed and no reader was invoked.
C5_NonzeroExitIsHardFailure ==
    (prog \in Orchestrators \cup {"verify"} /\ proc.run = "nonzero") =>
        /\ Done
        /\ result = LogicFailure(prog)
        /\ result.code # 0
        /\ ~Ran("parse")
        /\ NoReaderRan

\* C5's case: the writer printed a well-formed manifest and then exited nonzero
C5_Witness ==
    /\ prog = "comprehensive" /\ Done /\ proc.run = "nonzero"
    /\ stdout.json /\ stdout.num_rows /\ stdout.files >= 1

\* C6: when the writer exits 0 and its stdout is not JSON, the parse ends the
\* run with a failure (the JSON error, exit status nonzero) and no reader
\* opens the file.
C6_MalformedManifestIsHardFailure ==
    (prog \in Orchestrators /\ proc.run = "ok" /\ ~stdout.json) =>
        /\ NoReaderRan
        /\ Ran("parse") =>
              /\ Done
              /\ result.kind = "raise" /\ result.exc = "JSONDecodeError"
              /\ result.code # 0

\* C6's case: a roundtrip run whose writer exited 0 with unparsable output
C6_Witness ==
    /\ prog = "roundtrip" /\ Done /\ proc.run = "ok" /\ ~stdout.json /\ Ran("parse")

\* C7: after a timeout the process was killed and the run ended in a failure
\* whose outcome differs from the outcome of a logic failure.
C7_TimeoutDistinctFromLogicFailure ==
    (Done /\ proc.run = "timeout") =>
        /\ Ran("kill")
        /\ result.kind # "none"
        /\ result # LogicFailure(prog)

\* C8: a manifest that is JSON but lacks num_rows or has no column entry is
\* rejected before any comparison: no reader check is ever run with it.
C8_ManifestValidatedBeforeComparison ==
    (prog \in Orchestrators /\ Ran("parse") /\ stdout.json
       /\ (~stdout.num_rows \/ ~stdout.columns)) => NoReaderRan

\* C9: after a failed compile the run has ended with a failure code, the
\* writer was never invoked and no reader was run.
C9_BuildFailureAborts ==
    proc.compile = "failed" =>
        /\ Done
        /\ result = Ret(1)
        /\ ~Ran("invoke")
        /\ NoReaderRan

\* C9's case: the compile failed while a binary of an earlier build is on disk
C9_Witness ==
    /\ prog = "roundtrip" /\ Done /\ proc.compile = "failed" /\ "binary" \in fs

\* C10: comparison is never fail-fast: a run that started comparing and
\* returned has evaluated every adapter on every file, whatever an earlier
\* check, adapter or file reported.
C10_NeverFailFast ==
    (prog \in Orchestrators /\ Done /\ result.kind = "return" /\ Ran("pyarrow")) =>
        LET n == IF prog = "roundtrip" THEN 1 ELSE stdout.files
        IN  Count("pyarrow") = n /\ Count("duckdb") = n

\* C11: the reader adapters are independent: an adapter is reported unavailable
\* exactly when its own library is missing, and a file on which PyArrow
\* reported discrepancies or failed to read is still handed to DuckDB.
C11_AdaptersIndependent ==
    /\ SummaryReached =>
          \A r \in Readers : (readers[r] = Unavailable) <=> ~has[r]
    /\ (prog \in Orchestrators /\ Done /\ result.kind = "return") =>
          \A k \in 1..MaxFiles : <<k, "pyarrow">> \in failed => Count("duckdb") >= k

\* a comparator was called on its own and has returned its list of errors
HasCompared(who) ==
    comparison.who \in who /\ comparison.done /\ comparison.exc = ""
\* the returned list holds a discrepancy of this check
Reported(check) == \E i \in DOMAIN comparison.errors : comparison.errors[i][1] = check
\* the row and column counts of the table that was fed
FedRows == NumRows
FedColumns(who) ==
    Cardinality(IF who = "compare_values" THEN RoundtripColumns ELSE ComprehensiveColumns)

\* C12: for every reader that read the file, the comparator reports a row
\* count discrepancy exactly when the reader's row count differs from the
\* manifest's, and a column count discrepancy exactly when its column count
\* differs.
C12_CountsExact ==
    /\ HasCompared({"compare_values"}) =>
          /\ comparison.pa = "ok" =>
                /\ Reported("pyarrow_rows") <=> DecodedRows(comparison.f) # FedRows
                /\ Reported("pyarrow_columns") <=>
                      Cardinality(DecodedNames(comparison.f, RoundtripColumns))
                          # FedColumns(comparison.who)
          /\ comparison.db = "ok" =>
                /\ Reported("duckdb_rows") <=> DecodedRows(comparison.g) # FedRows
                /\ Reported("duckdb_columns") <=>
                      Cardinality(DecodedNames(comparison.g, RoundtripColumns))
                          # FedColumns(comparison.who)
    /\ (HasCompared({"comprehensive_pyarrow", "comprehensive_duckdb"}) /\ comparison.pa = "ok") =>
          /\ Reported("num_rows") <=> DecodedRows(comparison.f) # FedRows
          /\ Reported("num_columns") <=>
                Cardinality(DecodedNames(comparison.f, ComprehensiveColumns))
                    # FedColumns(comparison.who)

\* the comparators that compare the values PyArrow decoded
ValueComparators == {"compare_values", "comprehensive_pyarrow", "roundtrip_pyarrow"}
\* such a comparator was handed a table PyArrow read, and returned
ComparedValues ==
    HasCompared(ValueComparators) /\ comparison.pa = "ok" /\ comparison.values
\* the columns of the table the comparator's manifest describes
ManifestColumns ==
    IF comparison.who = "comprehensive_pyarrow" THEN ComprehensiveColumns
    ELSE RoundtripColumns
\* the rows of the first-K and of the last-K slice
FirstSlice == {i \in 0..(NumRows - 1) : i < K}
LastSlice == {i \in 0..(NumRows - 1) : i >= NumRows - K}
\* the reader's value at row i of column c is not the one that was fed, or
\* the reader returned no such row or column
Differs(c, i) ==
    \/ c \notin DecodedNames(comparison.f, ManifestColumns)
    \/ i >= DecodedRows(comparison.f)
    \/ DecodedValue(comparison.f, c, i) # FedValue(c, i)

\* C13: for every integer or boolean column of the manifest, a position of
\* the first five or of the last five rows at which the reader's value
\* differs (or which the reader does not return) produces a discrepancy.
C13_ExactOnBothSlices ==
    ComparedValues =>
        \A c \in ManifestColumns \cap {"bool_col", "int32_col", "int64_col"} :
            \A i \in FirstSlice \cup LastSlice :
                Differs(c, i) => comparison.errors # <<>>

\* the reader returned row i of column c, null where a value was fed or a
\* value where null was fed
NullDisagrees(c, i) ==
    /\ c \in DecodedNames(comparison.f, ManifestColumns)
    /\ i < DecodedRows(comparison.f)
    /\ (DecodedValue(comparison.f, c, i) = NULL) # (FedValue(c, i) = NULL)
\* the discrepancy that is about column c's nulls and not about its values
NullKind(c) == IF c = "string_col" THEN "string_nulls" ELSE "nullable_nulls"

\* C14: for every nullable column of the manifest, a compared position at
\* which the reader and the manifest disagree on null / non-null is reported
\* as a discrepancy of the null kind, not as the column's value mismatch.
C14_NullMismatchDistinct ==
    ComparedValues =>
        \A c \in ManifestColumns \cap {"nullable_int", "string_col"} :
            \A i \in FirstSlice :
                NullDisagrees(c, i) => Reported(NullKind(c))

\* the positions in the returned list of the discrepancies on column c
ErrorsOn(c) == {k \in DOMAIN comparison.errors : comparison.errors[k][1] = c}
\* the tolerance the comparator applies to column c
ToleranceOf(who, c) ==
    CASE who = "compare_values" -> TolCompareValues
      [] who = "comprehensive_pyarrow" /\ c = "float_col" -> TolFloatComprehensive
      [] who = "comprehensive_pyarrow" /\ c = "double_col" -> TolDoubleComprehensive
      [] who = "roundtrip_pyarrow" /\ c = "float_col" -> TolFloatRoundtrip
      [] who = "roundtrip_pyarrow" /\ c = "double_col" -> TolDoubleRoundtrip
\* the compared positions of column c that are out of the comparator's tolerance
OutOfTolerance(c) ==
    {i \in FirstSlice :
        /\ i < DecodedRows(comparison.f)
        /\ Exceeds(DecodedValue(comparison.f, c, i), FedValue(c, i),
                   ToleranceOf(comparison.who, c))}

\* C15: for each floating column every comparator reports at most one
\* discrepancy, and one that names an index names the lowest index out of
\* tolerance: no later element is reported.
C15_FloatShortCircuit ==
    ComparedValues =>
        \A c \in {"float_col", "double_col"} :
            /\ Cardinality(ErrorsOn(c)) <= 1
            /\ \A k \in ErrorsOn(c) :
                  LET i == comparison.errors[k][2]
                  IN  i >= 0 => i \in OutOfTolerance(c) /\ \A j \in OutOfTolerance(c) : i <= j

\* the tolerance of a column's precision: 1e-4 for single, 1e-10 for double
PrecisionTolerance(c) ==
    IF c = "float_col" THEN TolFloatComprehensive ELSE TolDoubleComprehensive

\* C16: when a comparator passes a table (reports no discrepancy), every
\* compared position of every floating column is within the tolerance of the
\* column's precision, 1e-4 for single and 1e-10 for double.
C16_ToleranceBound ==
    (ComparedValues /\ comparison.errors = <<>>) =>
        \A c \in {"float_col", "double_col"} :
            \A i \in FirstSlice :
                i < DecodedRows(comparison.f) =>
                    ~Exceeds(DecodedValue(comparison.f, c, i), FedValue(c, i),
                             PrecisionTolerance(c))

\* C17: a reader whose read failed never contributes zero discrepancies: the
\* comparator handed a failed read reports it (or ends the run as failed).
C17_ReadFailureCounted ==
    (comparison.who \in Comparators /\ comparison.done
        /\ (comparison.pa = "failed" \/ comparison.db = "failed")) =>
        comparison.exc = "caught" \/ Reported("read")

\* the logged calls of generate_data
GenerateCalls == {k \in DOMAIN gen.calls : gen.calls[k].fn = "generate_data"}

\* C18: generate_data is deterministic: two calls with the same (seed,
\* num_rows) return the same table, whatever was drawn before or between them.
C18_GeneratorDeterministic ==
    \A i, j \in GenerateCalls :
        (gen.calls[i].seed = gen.calls[j].seed
            /\ gen.calls[i].num_rows = gen.calls[j].num_rows) =>
            gen.calls[i].table = gen.calls[j].table

\* C18's case: two calls with the same arguments, with rows to draw, made
\* from different generator states and with another caller's draws in between
C18_Witness ==
    \E i, j \in GenerateCalls : \E k \in DOMAIN gen.calls :
        /\ i < k /\ k < j
        /\ gen.calls[k].fn = "benchmark_write" /\ gen.calls[k].num_rows > 0
        /\ gen.calls[i].seed = gen.calls[j].seed
        /\ gen.calls[i].num_rows = gen.calls[j].num_rows
        /\ gen.calls[i].num_rows > 0
        /\ gen.calls[i].before # gen.calls[j].before

\* C19: generate_data has no side effect: a call leaves the process-wide
\* generator in the state it found it in, and writes no file.
C19_GeneratorHasNoSideEffect ==
    /\ \A k \in GenerateCalls : gen.calls[k].after = gen.calls[k].before
    /\ GenerateCalls # {} => fs = {}

\* C20: in the manifest the roundtrip writer prints, the null index set of
\* nullable_int has as many entries as rows were fed as null (definition
\* level 0) among the writer's NUM_ROWS rows.
C20_NullIndexSetMatchesNullCount ==
    (prog = "roundtrip" /\ proc.run = "ok" /\ stdout.json /\ stdout.columns) =>
        Cardinality({null_indices[k] : k \in DOMAIN null_indices})
            = Cardinality({i \in 0..(NUM_ROWS - 1) : def_levels(i) = 0})

\* generate_test_files.main returned
FixturesDone == prog = "fixtures" /\ Done /\ result = Ret(0)
\* the producer's guard sends it back with no file
ProducerUnavailable(producer) == \E l \in Requires(producer) : ~has[l]

\* C21: after generate_test_files.main, the 'files' list of manifest.json has
\* exactly one entry (name, path, producer, compression) per fixture file
\* written in this run, in the order they were written, and a producer whose
\* library is unavailable has no entry and wrote no file.
C21_ManifestEnumeratesFixtures ==
    FixturesDone =>
        /\ manifest.exists
        /\ Len(manifest.files) = Len(written)
        /\ \A i, j \in DOMAIN written : written[i] = written[j] => i = j
        /\ \A i \in DOMAIN written :
              LET e == manifest.files[i]
              IN  /\ e.path = written[i]
                  /\ e.path = FixturePath(e.producer, e.name)
                  /\ \E k \in DOMAIN Fixtures(e.producer) :
                        Fixtures(e.producer)[k] = <<e.name, e.compression>>
        /\ \A n \in DOMAIN Producers :
              ProducerUnavailable(Producers[n]) =>
                  /\ \A i \in DOMAIN manifest.files :
                        manifest.files[i].producer # Producers[n]
                  /\ \A path \in fs : path[1] # Producers[n]

\* C21's case: main returned with files of the first and of the last
\* producer written and the producer between them unavailable
C21_Witness ==
    /\ FixturesDone
    /\ ~has["duckdb"]
    /\ \E i, j \in DOMAIN manifest.files :
          /\ manifest.files[i].producer = "pyarrow"
          /\ manifest.files[j].producer = "fastparquet"

\* C22: the candidate is compiled at most once per process and only when no
\* prebuilt binary exists: every compile step is the first one and is taken
\* with no writer binary on disk.
C22_CompileOnlyIfAbsent ==
    [][Count("compile")' > Count("compile") =>
          (Count("compile") = 0 /\ "binary" \notin fs)]_vars

\* the positions of a step in the log
Steps(S) == {i \in DOMAIN events : events[i] \in S}

\* C23: the steps of a run come in a fixed order: a reader opens the file only
\* after the candidate was invoked and exited with code 0 and then its
\* manifest was parsed; DuckDB reads a file right after PyArrow read it;
\* discrepancies are accumulated only by reader steps; and when the
\* comprehensive run reaches its summary, every file of the manifest was
\* read by PyArrow and by DuckDB.
C23_StepOrder ==
    prog \in Orchestrators =>
        /\ \A r \in Steps({"pyarrow", "duckdb"}) :
              /\ proc.run = "ok" /\ proc.rc = 0 /\ stdout.json
              /\ \E i \in Steps({"invoke"}), j \in Steps({"parse"}) : i < j /\ j < r
        /\ \A r \in Steps({"duckdb"}) : r > 1 /\ events[r - 1] = "pyarrow"
        /\ total_errors > 0 => Steps({"pyarrow", "duckdb"}) # {}
        /\ (prog = "comprehensive" /\ Done /\ result.kind = "return"
                /\ Steps({"parse"}) # {}) =>
              /\ Cardinality(Steps({"pyarrow"})) = stdout.files
              /\ Cardinality(Steps({"duckdb"})) = stdout.files

\* C23's case: the comprehensive run reached its summary after reading
\* several files, with discrepancies accumulated
C23_Witness ==
    /\ prog = "comprehensive" /\ Done /\ result.kind = "return"
    /\ stdout.files = MaxFiles
    /\ Cardinality(Steps({"duckdb"})) = MaxFiles
    /\ total_errors > 0

\* pyarrow_result.get('success', False) and the like
Flag(r) == Get(readers[r], "success", FALSE)

Summarised == comparison.who = "verify_with_pyarrow" /\ comparison.done

\* C25: for every column of n rows the PyArrow adapter read, first_values
\* is the column's first min(n, 5) values and last_values its last min(n, 5)
\* values, both in row order (the whole column when n <= 5, empty when n = 0).
C25_FirstAndLastSlices ==
    Summarised =>
        \A c \in DOMAIN comparison.table.columns :
            LET col_data == comparison.table.columns[c]
                n == Len(col_data)
                k == Min(n, 5)
                summary == comparison.out.columns[c]
            IN  /\ Len(summary.first_values) = k
                /\ Len(summary.last_values) = k
                /\ \A i \in 1..k :
                       /\ summary.first_values[i] = col_data[i]
                       /\ summary.last_values[i] = col_data[n - k + i]

\* C25's case: a table of more than five rows whose two columns were
\* summarised, prefix and suffix being different slices of one of them
C25_Witness ==
    /\ Summarised
    /\ comparison.table.num_rows > 5
    /\ DOMAIN comparison.out.columns = SummaryColumns
    /\ comparison.out.columns["id"].first_values
           # comparison.out.columns["id"].last_values

====
